---- MODULE Spec2Model ----
(***************************************************************************)
(* Model of the melodix playback engine (Player) and the command handlers  *)
(* that drive it.  Every command handler runs in its own goroutine; a      *)
(* handler that ends up in Player.Play stays there until the chain of      *)
(* songs it plays is over.  The Player's fields are shared between the     *)
(* handlers, and only Enqueue, Dequeue, ClearQueue, SetCurrentStatus and   *)
(* SetVoiceConnection take the mutex.                                      *)
(*                                                                         *)
(* A time.Duration is an int64 count of nanoseconds.  It is kept here as    *)
(* its eight bytes, lowest first, and its arithmetic wraps as int64        *)
(* arithmetic does.                                                        *)
(***************************************************************************)
EXTENDS Integers, Sequences, FiniteSets, TLC

\* ------------------------------------------------------------------ bounds
NumThreads == 3
MaxOps == 2
MaxSeqOps == 3
MaxQueue == 3
MaxEnq == 3
MaxDeq == 4

\* --------------------------------------------------------------- constants
Second == 1000000000
Millisecond == 1000000
SkipCap == 1

\* The handler goroutines.
ThreadNames == <<"t1", "t2", "t3", "t4", "t5">>
Threads == {ThreadNames[i] : i \in 1..NumThreads}
nil == "nil"
Songs == {"a", "b", "c"}

\* Song.Source of the song descriptors used (SongSource enum).
SourceYouTube == "YouTube"
SourceStream == "Stream"
Source(s) == IF s = "c" THEN SourceStream ELSE SourceYouTube

\* The "duration" query parameter of the song's download URL: a number and
\* a unit ("" when the parameter has none, or when the URL has no such
\* parameter).  The URL of a reads "2ns", the URL of b "180s", and the URL
\* of the radio stream c has no duration.
DurationParam(s) ==
    CASE s = "a" -> [n |-> 2, unit |-> "ns"]
      [] s = "b" -> [n |-> 180, unit |-> "s"]
      [] OTHER -> [n |-> 0, unit |-> ""]

\* PlaybackStatus enum.
StatusResting == "Resting"
StatusPlaying == "Playing"
StatusPaused == "Paused"
StatusError == "Error"

\* What the encoder and the stream report when a stream completes.
\* (milliseconds)
EncDurations == {0, 500, 1500, 41000}
Positions == {0, 1000, 30000}
\* EncodeOptions.StartTime of the encode sessions (seconds).
StartTimes == {0, 1, 10}

VARIABLES
    SongQueue,          \* Player.SongQueue
    CurrentSong,        \* Player.CurrentSong (nil or a song)
    CurrentStatus,      \* Player.CurrentStatus
    VoiceConnection,    \* Player.VoiceConnection (nil or "conn")
    StreamingSession,   \* Player.StreamingSession (nil or "stream")
    streamPaused,       \* the paused flag of the stream p.StreamingSession points to
    EncodingSession,    \* Player.EncodingSession: nil, or the handler whose Play opened
                        \* the session it points to ("gone" once that handler returned)
    encStart,           \* EncodeOptions.StartTime of the session p.EncodingSession points to
    encState,           \* "none", or "running" / "cleaned": the state of that session
    SkipInterrupt,      \* number of values buffered in the SkipInterrupt channel
    pc,                 \* per thread: position in the handler
    startAt,            \* per thread: startAt argument of the Play being entered
    playSong,           \* per thread: song argument of the Play being entered
    cont,               \* per thread: what the caller of Play does after Play returns
    crashed,            \* the process has terminated (panic or slog.Fatal)
    listenCount,        \* AddPlaybackCountStats calls for the listen of CurrentSong (saturates)
    enqLog,             \* songs passed to Enqueue by API calls, in call order
    deqLog,             \* results of Dequeue API calls, in call order
    cmdOnly,            \* per handler: the enqueueOnly flag of its command
    ops,                \* number of commands received so far
    doneStats,          \* <<>>, or the position and the encoded duration (ms) that
                        \* the last completed stream reported and whether the value
                        \* it sent on done was an error other than io.EOF, until the
                        \* Play that received it takes its next step
    found,              \* per handler inside an engine call: <<>>, or <<"Skip", the
                        \* voice connection, the skip channel>> as they were when
                        \* Skip() was called with nothing to skip (status Resting, no
                        \* current song, empty queue), <<"Pause">> when Pause() found
                        \* a status other than Playing, <<"Unpause">> when Unpause()
                        \* found the status Playing, <<"Resumed">> when Unpause()
                        \* unpaused a paused stream, <<"Skipping">> in any other
                        \* Skip() that goes on to signal, and <<"Skipping", "sent">>
                        \* while the signal it sent is in the channel; the locals of a queue
                        \* operation taken step by step
    serial,             \* the commands arrive one at a time: each is received (and a
                        \* stream completes) only when no handler has a step to take
    tickers,            \* per handler: the tickers its Play invocations have
                        \* started and not yet stopped (counted up to MaxTickers)
    mutex,              \* the handler that holds the Player's sync.Mutex, or nil
                        \* (kept where the locking operations are taken step by
                        \* step)
    botInstances,       \* main.go's botInstances: the Discord instance of each
                        \* guild started, with the Player it owns
    session,            \* the discordgo session: whether it is open, and the
                        \* calls of its handlers that are running
    db                  \* the history database: its tracks and history records

\* The tickers counted per handler.
MaxTickers == 2

vars == <<SongQueue, CurrentSong, CurrentStatus, VoiceConnection, StreamingSession,
          streamPaused, EncodingSession, encStart, encState, SkipInterrupt, pc, startAt,
          playSong, cont, crashed, listenCount, doneStats, enqLog, deqLog, cmdOnly, ops, found, serial, tickers, mutex, botInstances, session, db>>

shared == <<SongQueue, CurrentSong, CurrentStatus, VoiceConnection, StreamingSession,
            EncodingSession, SkipInterrupt>>
sessions == <<streamPaused, encStart, encState>>
playArgs == <<startAt, playSong, cont>>
logs == <<enqLog, deqLog>>
cmd == <<cmdOnly, found, serial, tickers, mutex, botInstances, session, db>>
hist == <<listenCount, doneStats>>

Min(x, y) == IF x < y THEN x ELSE y

\* NewPlayer, and the handlers before the first command.
Fresh ==
    /\ SongQueue = <<>>
    /\ CurrentSong = nil
    /\ CurrentStatus = StatusResting
    /\ VoiceConnection = nil
    /\ StreamingSession = nil
    /\ EncodingSession = nil
    /\ SkipInterrupt = 0
    /\ streamPaused = FALSE
    /\ encStart = 0
    /\ encState = "none"
    /\ pc = [t \in Threads |-> "idle"]
    /\ startAt = [t \in Threads |-> 0]
    /\ playSong = [t \in Threads |-> nil]
    /\ cont = [t \in Threads |-> "none"]
    /\ crashed = FALSE
    /\ listenCount = 0
    /\ doneStats = <<>>
    /\ enqLog = <<>>
    /\ deqLog = <<>>
    /\ cmdOnly = [t \in Threads |-> FALSE]
    /\ ops = 0
    /\ found = [t \in Threads |-> <<>>]
    /\ tickers = [t \in Threads |-> 0]
    /\ mutex = nil
    /\ botInstances = <<>>
    /\ session = [open |-> FALSE, calls |-> {}]
    /\ db = [tracks |-> {}, history |-> <<>>]

Init == Fresh /\ serial = FALSE

InitSeq == Fresh /\ serial = TRUE

\* ------------------------------------------------------------------ queue
\* Player.Enqueue: append under the lock.
Enqueue(q, s) == Append(q, s)

\* A Dequeue that returns the newest song.
DequeueResultNewest(q) == IF Len(q) = 0 THEN nil ELSE q[Len(q)]

\* A Dequeue that leaves the returned song in the queue.
DequeueRestKept(q) == q

\* Player.Dequeue: the value returned and the queue left behind.
DequeueResult(q) == IF Len(q) = 0 THEN nil ELSE q[1]
DequeueRest(q) == IF Len(q) = 0 THEN q ELSE SubSeq(q, 2, Len(q))

\* A ClearQueue that leaves the queue as it is.
ClearQueueKept(q) == q

\* Player.ClearQueue
ClearQueue(q) == IF Len(q) = 0 THEN q ELSE <<>>

\* A new command is handled by a free handler goroutine: the first free one
\* (a goroutine that is not handling a command holds no state).
Index(t) == CHOOSE i \in 1..NumThreads : ThreadNames[i] = t
\* The handler has no step to take until another handler or the stream acts.
Blocked(t) ==
    \/ pc[t] = "idle"
    \/ pc[t] = "select" /\ SkipInterrupt = 0
    \/ pc[t] = "play_wait" /\ VoiceConnection = nil
    \/ pc[t] = "skip_send" /\ SkipInterrupt = SkipCap

Quiet == serial => \A u \in Threads : Blocked(u)

Idle(t) ==
    /\ pc[t] = "idle"
    /\ ~crashed
    /\ ops < (IF serial THEN MaxSeqOps ELSE MaxOps)
    /\ Quiet
    /\ \A u \in Threads : Index(u) < Index(t) => pc[u] # "idle"

Goto(t, l) == pc' = [pc EXCEPT ![t] = l]

\* ------------------------------------------------------ command handlers
\* The playlists a play or add command resolves to.
Playlists == {<<"a">>, <<"c">>, <<"a", "b", "c">>}

\* Player.Enqueue for every song of a playlist, in order.
RECURSIVE EnqueueAll(_, _)
EnqueueAll(q, list) ==
    IF list = <<>> THEN q ELSE EnqueueAll(Enqueue(q, Head(list)), Tail(list))

\* Discord.Commands, "play" and "add" (and "pause" / "resume" falling through
\* to "play"), into enqueuePlaylist: the voice channel is joined when the
\* player has no voice connection (a failed join ends the command) and the
\* songs of the playlist are enqueued.
CmdPlay(t, list, only) ==
    /\ Idle(t)
    /\ Len(SongQueue) + Len(list) <= MaxQueue
    /\ ops' = ops + 1
    /\ \E failed \in BOOLEAN :
         IF VoiceConnection = nil /\ failed
         THEN UNCHANGED <<VoiceConnection, SongQueue, pc, cmdOnly>>
         ELSE /\ VoiceConnection' = "conn"
              /\ SongQueue' = EnqueueAll(SongQueue, list)
              /\ Goto(t, "cmd_check")
              /\ cmdOnly' = [cmdOnly EXCEPT ![t] = only]
    /\ UNCHANGED <<CurrentSong, CurrentStatus, StreamingSession,
                   EncodingSession, SkipInterrupt, sessions, playArgs, crashed,
                   hist, logs, found, serial, tickers, mutex, botInstances, session, db>>

\* A test that leaves enqueueOnly out.
CmdStartsPlayAnyCommand(only, status) == status # StatusPlaying

\* enqueuePlaylist: !enqueueOnly && d.Player.GetCurrentStatus() != StatusPlaying
CmdStartsPlay(only, status) == ~only /\ status # StatusPlaying

\* enqueuePlaylist after the songs are enqueued: the message is sent (a
\* failure ends the command) and Play(0, nil) is called or not.
CmdCheck(t) ==
    /\ pc[t] = "cmd_check"
    /\ ~crashed
    /\ \E failed \in BOOLEAN :
         IF ~failed /\ CmdStartsPlay(cmdOnly[t], CurrentStatus)
         THEN Goto(t, "play_entry")
         ELSE Goto(t, "idle")
    /\ cmdOnly' = [cmdOnly EXCEPT ![t] = FALSE]
    /\ UNCHANGED <<shared, sessions, playArgs, crashed, hist, logs, ops, found, serial, tickers, mutex, botInstances, session, db>>

\* Discord.Commands, "pause" while the status read is Playing:
\* handlePauseCommand reads GetCurrentSong().ID and calls Pause().
CmdPause(t) ==
    /\ Idle(t)
    /\ ops' = ops + 1
    /\ CurrentStatus = StatusPlaying
    /\ IF CurrentSong = nil
       THEN crashed' = TRUE /\ UNCHANGED pc
       ELSE Goto(t, "pause") /\ UNCHANGED crashed
    /\ UNCHANGED <<shared, sessions, playArgs, hist, logs, cmd>>

\* Discord.Commands, "resume" (or "pause") while the status read is not
\* Playing: handleResumeCommand joins the voice channel when needed and
\* calls Unpause().
CmdResume(t) ==
    /\ Idle(t)
    /\ ops' = ops + 1
    /\ CurrentStatus # StatusPlaying
    /\ \E failed \in BOOLEAN :
         IF VoiceConnection = nil /\ failed
         THEN UNCHANGED <<VoiceConnection, pc>>
         ELSE /\ VoiceConnection' = "conn"
              /\ Goto(t, "unpause")
    /\ UNCHANGED <<SongQueue, CurrentSong, CurrentStatus, StreamingSession,
                   EncodingSession, SkipInterrupt, sessions, playArgs, crashed,
                   hist, logs, cmd>>

\* --------------------------------------------------------------- Pause
\* A Pause that does not look at the status.
PauseStatusAlways(status) == StatusPaused

\* if p.CurrentStatus == StatusPlaying { ...; p.CurrentStatus = StatusPaused }
PauseStatus(status) == IF status = StatusPlaying THEN StatusPaused ELSE status

Pause(t) ==
    /\ pc[t] = "pause"
    /\ ~crashed
    /\ IF VoiceConnection = nil \/ StreamingSession = nil
       THEN UNCHANGED <<CurrentStatus, streamPaused>>
       ELSE /\ CurrentStatus' = PauseStatus(CurrentStatus)
            /\ streamPaused' = IF CurrentStatus = StatusPlaying THEN TRUE
                               ELSE streamPaused
    /\ found' = [found EXCEPT ![t] =
                    IF CurrentStatus # StatusPlaying THEN <<"Pause">> ELSE <<>>]
    /\ Goto(t, "ret")
    /\ UNCHANGED <<SongQueue, CurrentSong, VoiceConnection, StreamingSession,
                   EncodingSession, SkipInterrupt, encState, encStart, playArgs,
                   crashed, hist, logs, cmdOnly, serial, tickers, mutex, botInstances, session, db, ops>>

\* ------------------------------------------------------------- Unpause
\* An Unpause that leaves the status as it is.
UnpauseStatusKept(status) == status

\* The first half of Unpause: a paused stream is unpaused.
UnpauseStatus(status) == IF status = StatusPaused THEN StatusPlaying ELSE status

Unpause(t) ==
    /\ pc[t] = "unpause"
    /\ ~crashed
    /\ found' = [found EXCEPT ![t] =
                    IF CurrentStatus = StatusPlaying THEN <<"Unpause">>
                    ELSE IF /\ VoiceConnection # nil
                            /\ StreamingSession # nil
                            /\ CurrentStatus = StatusPaused
                    THEN <<"Resumed">>
                    ELSE <<>>]
    /\ IF VoiceConnection = nil
       THEN /\ Goto(t, "ret")
            /\ UNCHANGED <<CurrentStatus, streamPaused>>
       ELSE /\ IF StreamingSession # nil
               THEN /\ CurrentStatus' = UnpauseStatus(CurrentStatus)
                    /\ streamPaused' = IF CurrentStatus = StatusPaused THEN FALSE
                                       ELSE streamPaused
               ELSE UNCHANGED <<CurrentStatus, streamPaused>>
            /\ Goto(t, "unpause_queue")
    /\ UNCHANGED <<SongQueue, CurrentSong, VoiceConnection, StreamingSession,
                   EncodingSession, SkipInterrupt, encState, encStart, playArgs,
                   crashed, hist, logs, cmdOnly, serial, tickers, mutex, botInstances, session, db, ops>>

\* The second half of Unpause: start playing when resting with songs queued.
UnpauseStartsPlay(status, q) == Len(q) > 0 /\ status = StatusResting

UnpauseQueue(t) ==
    /\ pc[t] = "unpause_queue"
    /\ ~crashed
    /\ IF UnpauseStartsPlay(CurrentStatus, SongQueue)
       THEN /\ Goto(t, "play_entry")
            /\ cont' = [cont EXCEPT ![t] = "setPlaying"]
       ELSE /\ Goto(t, "ret")
            /\ UNCHANGED cont
    /\ UNCHANGED <<shared, sessions, startAt, playSong, crashed, hist, logs, cmd, ops>>

\* ---------------------------------------------------------------- Skip
\* The switch on the status Skip starts with: "return" (nothing to do),
\* "playing" (the Playing/Paused case) or "resting" (the Resting case).
SkipCase(status, vc, song) ==
    IF status \in {StatusPlaying, StatusPaused}
    THEN IF vc = nil \/ song = nil THEN "return" ELSE "playing"
    ELSE IF status = StatusResting THEN "resting" ELSE "return"

\* len(p.SkipInterrupt) == 0
SkipMaySignal(n) == n = 0

\* Discord.Commands, "skip": handleSkipCommand calls Skip().  The switch on
\* the status, the status Resting in the Playing/Paused case, the check of
\* the channel's length and, when it is empty, the play-count of the
\* interrupted song (history.AddPlaybackCountStats is given
\* p.VoiceConnection.GuildID and p.CurrentSong.ID, and its error is
\* dropped).
Skip(t) ==
    /\ Idle(t)
    /\ ops' = ops + 1
    /\ LET c == SkipCase(CurrentStatus, VoiceConnection, CurrentSong)
           counts == c = "playing" \/ CurrentSong # nil
           nothing == CurrentStatus = StatusResting /\ CurrentSong = nil
                      /\ SongQueue = <<>>
       IN  /\ CurrentStatus' = IF c = "playing" THEN StatusResting ELSE CurrentStatus
           /\ IF c = "return" \/ ~SkipMaySignal(SkipInterrupt)
              THEN UNCHANGED <<pc, cont, listenCount, crashed, found>>
              ELSE IF counts /\ VoiceConnection = nil
              THEN crashed' = TRUE /\ UNCHANGED <<pc, cont, listenCount, found>>
              ELSE /\ \E histErr \in BOOLEAN :
                        listenCount' = IF counts /\ ~histErr
                                       THEN Min(listenCount + 1, 2)
                                       ELSE listenCount
                   /\ Goto(t, "skip_send")
                   /\ cont' = [cont EXCEPT ![t] =
                                  IF c = "resting" THEN "setPlaying" ELSE "none"]
                   /\ found' = [found EXCEPT ![t] =
                                     IF nothing
                                     THEN <<"Skip", VoiceConnection, SkipInterrupt>>
                                     ELSE <<"Skipping">>]
                   /\ UNCHANGED crashed
    /\ UNCHANGED <<SongQueue, CurrentSong, VoiceConnection, StreamingSession,
                   EncodingSession, SkipInterrupt, sessions, startAt, playSong,
                   doneStats, logs, cmdOnly, serial, tickers, mutex, botInstances, session, db>>

\* p.SkipInterrupt <- true, which blocks while the buffer is full, and the
\* call of Play(0, nil) after it.
SkipSend(t) ==
    /\ pc[t] = "skip_send"
    /\ ~crashed
    /\ SkipInterrupt < SkipCap
    /\ SkipInterrupt' = SkipInterrupt + 1
    /\ Goto(t, "play_entry")
    /\ found' = [found EXCEPT ![t] = IF @ = <<"Skipping">>
                                     THEN <<"Skipping", "sent">> ELSE @]
    /\ UNCHANGED <<SongQueue, CurrentSong, CurrentStatus, VoiceConnection,
                   StreamingSession, EncodingSession, sessions, playArgs, crashed,
                   hist, logs, cmdOnly, serial, tickers, mutex, botInstances, session, db, ops>>

PlayAlwaysDequeues(song) == TRUE

\* The test at the top of Play: only a call without a song takes the next
\* one from the queue; a call with a song leaves p.CurrentSong as it is.
PlayDequeues(song) == song = nil

\* ---------------------------------------------------------------- Play
\* The start of Play: with no song given, the head of the queue becomes the
\* current song, and Play returns at once when the queue is empty; then
\* dca.EncodeFile(p.CurrentSong.DownloadURL, options) opens the encode
\* session (or fails) and its result is assigned to p.EncodingSession.
PlayEntry(t) ==
    /\ pc[t] = "play_entry"
    /\ ~crashed
    /\ LET song == IF PlayDequeues(playSong[t]) THEN DequeueResult(SongQueue) ELSE CurrentSong
       IN  /\ CurrentSong' = song
           /\ SongQueue' = IF PlayDequeues(playSong[t]) THEN DequeueRest(SongQueue) ELSE SongQueue
           /\ listenCount' = IF PlayDequeues(playSong[t]) /\ song # nil THEN 0 ELSE listenCount
           /\ doneStats' = <<>>
           /\ IF PlayDequeues(playSong[t]) /\ song = nil
              THEN /\ CurrentStatus' = StatusResting
                   /\ Goto(t, "ret")
                   /\ UNCHANGED <<EncodingSession, encState, encStart, crashed>>
              ELSE IF song = nil
              THEN /\ crashed' = TRUE
                   /\ UNCHANGED <<CurrentStatus, EncodingSession, encState, encStart, pc>>
              ELSE /\ UNCHANGED <<CurrentStatus, crashed>>
                   /\ \E failed \in BOOLEAN :
                        IF failed
                        THEN /\ EncodingSession' = nil
                             /\ encState' = "none"
                             /\ encStart' = 0
                             /\ Goto(t, "ret")
                        ELSE /\ EncodingSession' = t
                             /\ encState' = "running"
                             /\ encStart' = startAt[t]
                             /\ Goto(t, "play_wait")
    /\ UNCHANGED <<VoiceConnection, StreamingSession, SkipInterrupt, streamPaused,
                   playArgs, logs, cmd, ops>>

\* The wait for a ready voice connection, Speaking(true), dca.NewStream and
\* the status Playing; the history entry made after it reads p.CurrentSong.
\* Then the ticker is started, which the deferred ticker.Stop() stops when
\* this Play returns.
PlayStream(t) ==
    /\ pc[t] = "play_wait"
    /\ ~crashed
    /\ VoiceConnection # nil
    /\ \E failed \in BOOLEAN :
         IF failed
         THEN /\ Goto(t, "ret")
              /\ UNCHANGED <<StreamingSession, CurrentStatus, streamPaused, crashed,
                             tickers>>
         ELSE /\ StreamingSession' = "stream"
              /\ streamPaused' = FALSE
              /\ CurrentStatus' = StatusPlaying
              /\ IF CurrentSong = nil
                 THEN crashed' = TRUE /\ UNCHANGED <<pc, tickers>>
                 ELSE /\ Goto(t, "select")
                      /\ tickers' = [tickers EXCEPT ![t] = Min(@ + 1, MaxTickers)]
                      /\ UNCHANGED crashed
    /\ UNCHANGED <<SongQueue, CurrentSong, VoiceConnection, EncodingSession,
                   SkipInterrupt, encState, encStart, playArgs, hist, logs,
                   cmdOnly, found, serial, mutex, botInstances, session, db, ops>>

\* ------------------------------------------------------- time.Duration
\* The int64 of a number 0 <= n < 2^31.
ToDuration(n) == [i \in 1..8 |-> IF i <= 4 THEN (n \div 256^(i - 1)) % 256 ELSE 0]

RECURSIVE AddFrom(_, _, _, _)
AddFrom(x, y, k, carry) ==
    IF k > 8 THEN <<>>
    ELSE LET s == x[k] + y[k] + carry
         IN  <<s % 256>> \o AddFrom(x, y, k + 1, s \div 256)

\* x + y and x - y of int64 values (wrapping).
DurationAdd(x, y) == AddFrom(x, y, 1, 0)
DurationSub(x, y) == AddFrom(x, [i \in 1..8 |-> 255 - y[i]], 1, 1)

RECURSIVE Column(_, _, _, _)
Column(x, y, k, i) ==
    IF i > k THEN 0 ELSE x[i] * y[k + 1 - i] + Column(x, y, k, i + 1)

RECURSIVE MulFrom(_, _, _, _)
MulFrom(x, y, k, carry) ==
    IF k > 8 THEN <<>>
    ELSE LET s == Column(x, y, k, 1) + carry
         IN  <<s % 256>> \o MulFrom(x, y, k + 1, s \div 256)

\* x * y of int64 values (wrapping).
DurationMul(x, y) == MulFrom(x, y, 1, 0)

RECURSIVE LessFrom(_, _, _)
LessFrom(x, y, k) ==
    IF k = 0 THEN FALSE
    ELSE IF x[k] # y[k] THEN x[k] < y[k]
    ELSE LessFrom(x, y, k - 1)

\* x < y of int64 values (the top bit is the sign).
DurationLess(x, y) ==
    LessFrom([x EXCEPT ![8] = (x[8] + 128) % 256],
             [y EXCEPT ![8] = (y[8] + 128) % 256], 8)

\* A test that takes every duration as positive.
DurationAlwaysPositive(d) == TRUE

\* d.Seconds() > 0
DurationPositive(d) == DurationLess(ToDuration(0), d)

RECURSIVE DivFrom(_, _, _, _)
DivFrom(x, m, k, rem) ==
    IF k = 0 THEN <<>>
    ELSE LET cur == rem * 256 + x[k]
         IN  DivFrom(x, m, k - 1, cur % m) \o <<cur \div m>>

\* int(d.Seconds()) of a duration 0 <= d < 2^31 seconds.
WholeSeconds(d) ==
    LET q == DivFrom(DivFrom(DivFrom(d, 1000, 8, 0), 1000, 8, 0), 1000, 8, 0)
    IN  q[1] + 256 * q[2] + 65536 * q[3] + 16777216 * q[4]

\* The duration of ms milliseconds.
Milliseconds(ms) == DurationMul(ToDuration(ms), ToDuration(Millisecond))

\* time.ParseDuration of the parameter: the number times its unit, and 0
\* (with an error, which metrics logs) when there is no unit.
ParseDuration(param) ==
    CASE param.unit = "ns" -> ToDuration(param.n)
      [] param.unit = "ms" -> DurationMul(ToDuration(param.n), ToDuration(Millisecond))
      [] param.unit = "s" -> DurationMul(ToDuration(param.n), ToDuration(Second))
      [] OTHER -> ToDuration(0)

\* Player.metrics: songDuration = time.Duration(duration) * time.Second, and
\* songPosition from the start offset of the encode session (seconds), the
\* position the stream played to and the duration encoded.
metricsDuration(param) == DurationMul(ParseDuration(param), ToDuration(Second))
metricsPosition(startTime, streamingPosition, encodingDuration) ==
    LET encodingStartTime == DurationMul(ToDuration(startTime), ToDuration(Second))
        delay == DurationSub(encodingDuration, streamingPosition)
    IN  DurationAdd(DurationAdd(encodingStartTime, streamingPosition), delay)

\* The part of Play's done branch that reads the result of metrics, for
\* every song, start offset and report of the sessions: whether the song is
\* taken as interrupted (EncodingSession.Stats().Duration.Seconds() > 0,
\* songPosition.Seconds() > 0 and songPosition < songDuration), and
\* int(songPosition.Seconds()).
Interrupted ==
    [song \in Songs, startTime \in StartTimes, pos \in Positions, encDur \in EncDurations |->
        LET songDuration == metricsDuration(DurationParam(song))
            songPosition == metricsPosition(startTime, Milliseconds(pos),
                                            Milliseconds(encDur))
            unfinished == /\ DurationPositive(Milliseconds(encDur))
                          /\ DurationPositive(songPosition)
                          /\ DurationLess(songPosition, songDuration)
        IN  [unfinished |-> unfinished,
             seconds |-> IF unfinished THEN WholeSeconds(songPosition) ELSE 0]]

\* What Play does with a completed stream: "resume" (Play again with the
\* same song at offset), "fatal" (rest without advancing), "stop" (queue
\* empty) or "next"; counted tells whether the play-count was incremented
\* and metrics whether Player.metrics was called.  pos and encDur are what
\* the sessions report (ms); histErr is the error AddPlaybackCountStats
\* returns without incrementing, the only value the variable err tested
\* after it can hold.
DoneDecision(status, vc, ss, song, startTime, pos, encDur, histErr, qlen) ==
    LET attached == vc # nil /\ ss # nil /\ song # nil
        resume ==
            /\ attached
            /\ status = StatusPlaying
            /\ \/ Source(song) = SourceStream
               \/ Interrupted[song, startTime, pos, encDur].unfinished
        offset == IF Source(song) = SourceStream THEN 0
                  ELSE Interrupted[song, startTime, pos, encDur].seconds
        counted == attached /\ ~resume
        measured == attached /\ Source(song) # SourceStream
    IN  IF resume
        THEN [kind |-> "resume", offset |-> offset, counted |-> FALSE, metrics |-> measured]
        ELSE IF counted /\ histErr
        THEN [kind |-> "fatal", offset |-> 0, counted |-> FALSE, metrics |-> measured]
        ELSE IF qlen = 0
        THEN [kind |-> "stop", offset |-> 0, counted |-> counted, metrics |-> measured]
        ELSE [kind |-> "next", offset |-> 0, counted |-> counted, metrics |-> measured]

\* The done branch of Play's select: the stream this Play attached has
\* completed; the value received from done is dropped.  A nil p.EncodingSession ends the process when metrics, or
\* the Cleanup before a resume or after a history error, is called on it.
PlayDone(t) ==
    /\ pc[t] = "select"
    /\ ~crashed
    /\ Quiet
    /\ \E pos \in Positions, encDur \in EncDurations, histErr \in BOOLEAN,
          streamErr \in BOOLEAN :
         LET es == EncodingSession
             d == DoneDecision(CurrentStatus, VoiceConnection, StreamingSession,
                               CurrentSong, encStart, pos, encDur, histErr,
                               Len(SongQueue))
         IN  IF es = nil /\ (d.metrics \/ d.kind \in {"resume", "fatal"})
             THEN /\ crashed' = TRUE
                  /\ UNCHANGED <<pc, startAt, playSong, encState, CurrentStatus,
                                 listenCount, doneStats>>
             ELSE /\ UNCHANGED crashed
                  /\ listenCount' = IF d.counted THEN Min(listenCount + 1, 2)
                                    ELSE listenCount
                  /\ doneStats' = <<pos, encDur, streamErr>>
                  /\ encState' = IF d.kind \in {"resume", "fatal"}
                                 THEN "cleaned" ELSE encState
                  /\ CurrentStatus' = IF d.kind = "fatal" THEN StatusResting
                                      ELSE CurrentStatus
                  /\ Goto(t, CASE d.kind = "resume" -> "play_entry"
                               [] d.kind = "fatal" -> "ret"
                               [] d.kind = "stop" -> "stop_clear"
                               [] OTHER -> "play_entry")
                  /\ startAt' = [startAt EXCEPT ![t] = d.offset]
                  /\ playSong' = [playSong EXCEPT ![t] =
                                     IF d.kind = "resume" THEN CurrentSong ELSE nil]
    /\ UNCHANGED <<SongQueue, CurrentSong, VoiceConnection, StreamingSession,
                   EncodingSession, SkipInterrupt, encStart, streamPaused, cont, logs, cmd, ops>>

\* The SkipInterrupt branch of Play's select: the signal is taken, and
\* p.EncodingSession is cleaned up.  (found keeps which Skip's signal it
\* was: the Play of another handler marks the sender's signal as taken.)
PlaySkipped(t) ==
    /\ pc[t] = "select"
    /\ ~crashed
    /\ SkipInterrupt > 0
    /\ SkipInterrupt' = SkipInterrupt - 1
    /\ IF EncodingSession = nil
       THEN crashed' = TRUE /\ UNCHANGED <<pc, encState>>
       ELSE /\ encState' = "cleaned"
            /\ Goto(t, "ret")
            /\ UNCHANGED crashed
    /\ found' = [u \in Threads |->
                   IF found[u] = <<"Skipping", "sent">> /\ u # t
                   THEN <<"Skipping">> ELSE found[u]]
    /\ UNCHANGED <<SongQueue, CurrentSong, CurrentStatus, VoiceConnection,
                   StreamingSession, EncodingSession, encStart, streamPaused, playArgs,
                   hist, logs, cmdOnly, serial, tickers, mutex, botInstances, session, db, ops>>

\* The engine call returns to the handler: when it ended in Play, the
\* deferred ticker.Stop() and Cleanup of every Play of this chain of calls,
\* and what Skip and Unpause do after their call of Play.
StatusAfterPlay(c, status) == IF c = "setPlaying" THEN StatusPlaying ELSE status

Return(t) ==
    /\ pc[t] = "ret"
    /\ ~crashed
    /\ IF EncodingSession = t
       THEN EncodingSession' = "gone" /\ encState' = "cleaned"
       ELSE UNCHANGED <<EncodingSession, encState>>
    /\ CurrentStatus' = StatusAfterPlay(cont[t], CurrentStatus)
    /\ cont' = [cont EXCEPT ![t] = "none"]
    /\ startAt' = [startAt EXCEPT ![t] = 0]
    /\ playSong' = [playSong EXCEPT ![t] = nil]
    /\ found' = [found EXCEPT ![t] = <<>>]
    /\ Goto(t, "idle")
    /\ doneStats' = <<>>
    /\ tickers' = [tickers EXCEPT ![t] = 0]
    /\ UNCHANGED <<SongQueue, CurrentSong, VoiceConnection, StreamingSession,
                   SkipInterrupt, encStart, streamPaused, crashed, listenCount, logs,
                   cmdOnly, serial, mutex, botInstances, session, db, ops>>

\* ---------------------------------------------------------------- Stop
\* Discord.Commands, "exit": handleStopCommand calls ClearQueue() and Stop().
CmdStop(t) ==
    /\ Idle(t)
    /\ ops' = ops + 1
    /\ SongQueue' = ClearQueue(SongQueue)
    /\ Goto(t, "stop_clear")
    /\ UNCHANGED <<CurrentSong, CurrentStatus, VoiceConnection, StreamingSession,
                   EncodingSession, SkipInterrupt, sessions, playArgs, crashed,
                   hist, logs, cmd>>

\* What Stop leaves in p.EncodingSession (it stops and cleans up the
\* session and keeps the field).
StopEncodingSession(es) == es

\* The first half of Stop: ClearQueue(); Speaking(false), Disconnect()
\* (slog.Fatal ends the process when it fails) and SetVoiceConnection(nil).
StopClear(t) ==
    /\ pc[t] = "stop_clear"
    /\ ~crashed
    /\ SongQueue' = ClearQueue(SongQueue)
    /\ IF VoiceConnection # nil
       THEN \E failed \in BOOLEAN :
              IF failed
              THEN crashed' = TRUE /\ UNCHANGED <<VoiceConnection, pc>>
              ELSE /\ VoiceConnection' = nil
                   /\ Goto(t, "stop_final")
                   /\ UNCHANGED crashed
       ELSE /\ Goto(t, "stop_final")
            /\ UNCHANGED <<VoiceConnection, crashed>>
    /\ doneStats' = <<>>
    /\ UNCHANGED <<CurrentSong, CurrentStatus, StreamingSession, EncodingSession,
                   SkipInterrupt, sessions, playArgs, listenCount, logs, cmd, ops>>

\* The second half of Stop: the stream handle is dropped, the encode session
\* is stopped and cleaned up, p.CurrentSong = nil and
\* p.CurrentStatus = StatusResting; Stop returns.
StopFinal(t) ==
    /\ pc[t] = "stop_final"
    /\ ~crashed
    /\ StreamingSession' = nil
    /\ encState' = IF EncodingSession # nil THEN "cleaned" ELSE encState
    /\ EncodingSession' = StopEncodingSession(EncodingSession)
    /\ CurrentSong' = nil
    /\ CurrentStatus' = StatusResting
    /\ Goto(t, "ret")
    /\ UNCHANGED <<SongQueue, VoiceConnection, SkipInterrupt, encStart, streamPaused,
                   playArgs, crashed, hist, logs, cmd, ops>>

\* ------------------------------------------------------- specifications
Step(t) ==
    \/ \E list \in Playlists, only \in BOOLEAN : CmdPlay(t, list, only)
    \/ CmdCheck(t)
    \/ CmdPause(t)
    \/ Pause(t)
    \/ CmdResume(t)
    \/ Unpause(t)
    \/ UnpauseQueue(t)
    \/ Skip(t)
    \/ SkipSend(t)
    \/ PlayEntry(t)
    \/ PlayStream(t)
    \/ PlayDone(t)
    \/ PlaySkipped(t)
    \/ Return(t)
    \/ CmdStop(t)
    \/ StopClear(t)
    \/ StopFinal(t)

Next == \E t \in Threads : Step(t)

\* The handlers run concurrently.
Spec == Init /\ [][Next]_vars

\* The commands arrive one at a time.
SpecSeq == InitSeq /\ [][Next]_vars

\* ---------------------------------------------------- the queue by itself
\* Player.Enqueue(s) called on an engine with no playback running.
ApiEnqueue(s) ==
    /\ Len(enqLog) < MaxEnq
    /\ SongQueue' = Enqueue(SongQueue, s)
    /\ enqLog' = Append(enqLog, s)
    /\ UNCHANGED <<CurrentSong, CurrentStatus, VoiceConnection, StreamingSession,
                   EncodingSession, SkipInterrupt, sessions, pc, playArgs, crashed,
                   hist, deqLog, cmd, ops>>

\* Player.Dequeue() called on an engine with no playback running; the log
\* keeps what it returned and how many songs had been enqueued by then.
ApiDequeue ==
    /\ Len(deqLog) < MaxDeq
    /\ SongQueue' = DequeueRest(SongQueue)
    /\ deqLog' = Append(deqLog, [song |-> DequeueResult(SongQueue), enq |-> Len(enqLog)])
    /\ UNCHANGED <<CurrentSong, CurrentStatus, VoiceConnection, StreamingSession,
                   EncodingSession, SkipInterrupt, sessions, pc, playArgs, crashed,
                   hist, enqLog, cmd, ops>>

NextQueue ==
    \/ \E s \in Songs : ApiEnqueue(s)
    \/ ApiDequeue

SpecQueue == Init /\ [][NextQueue]_vars

\* The number of songs the first n Dequeue calls returned.
RECURSIVE Returned(_)
Returned(n) ==
    IF n = 0 THEN 0
    ELSE Returned(n - 1) + (IF deqLog[n].song = nil THEN 0 ELSE 1)

\* C1: every Dequeue returns the oldest song enqueued and not yet returned,
\* or none when every song enqueued before it has been returned already (a
\* song enqueued twice is returned twice); the queue holds the songs not yet
\* returned, in the order they were enqueued.
C1_QueueFIFO ==
    /\ \A i \in 1..Len(deqLog) :
         deqLog[i].song = IF Returned(i - 1) < deqLog[i].enq
                          THEN enqLog[Returned(i - 1) + 1]
                          ELSE nil
    /\ SongQueue = SubSeq(enqLog, Returned(Len(deqLog)) + 1, Len(enqLog))

\* Enqueue(a), Enqueue(b), Enqueue(c) and four Dequeue calls, which returned
\* a, b, c and none.
C1_Witness ==
    /\ enqLog = <<"a", "b", "c">>
    /\ Len(deqLog) = 4
    /\ deqLog[1].enq = 3
    /\ [i \in 1..4 |-> deqLog[i].song] = <<"a", "b", "c", nil>>

\* ------------------------------------------------------------ rapid skips
\* The engine after the command "play a b c" with the first song streaming:
\* a handler waits in Play's select, and b and c are queued.
InitPlaying ==
    /\ SongQueue = <<"b", "c">>
    /\ CurrentSong = "a"
    /\ CurrentStatus = StatusPlaying
    /\ VoiceConnection = "conn"
    /\ StreamingSession = "stream"
    /\ streamPaused = FALSE
    /\ EncodingSession = "t1"
    /\ encStart = 0
    /\ encState = "running"
    /\ SkipInterrupt = 0
    /\ pc = [t \in Threads |-> IF t = "t1" THEN "select" ELSE "idle"]
    /\ startAt = [t \in Threads |-> 0]
    /\ playSong = [t \in Threads |-> nil]
    /\ cont = [t \in Threads |-> "none"]
    /\ crashed = FALSE
    /\ listenCount = 0
    /\ doneStats = <<>>
    /\ enqLog = <<>>
    /\ deqLog = <<>>
    /\ cmdOnly = [t \in Threads |-> FALSE]
    /\ ops = 0
    /\ found = [t \in Threads |-> <<>>]
    /\ tickers = [t \in Threads |-> IF t = "t1" THEN 1 ELSE 0]
    /\ mutex = nil
    /\ botInstances = <<>>
    /\ session = [open |-> FALSE, calls |-> {}]
    /\ db = [tracks |-> {}, history |-> <<>>]
    /\ serial = FALSE

\* Only skip commands arrive, and the streams do not complete meanwhile.
NextSkip ==
    \E t \in Threads :
        \/ Skip(t)
        \/ SkipSend(t)
        \/ PlayEntry(t)
        \/ PlayStream(t)
        \/ PlaySkipped(t)
        \/ Return(t)

SpecRapidSkip == InitPlaying /\ [][NextSkip]_vars

\* The state InitPlaying starts from.
PlayingABC ==
    /\ SongQueue = <<"b", "c">>
    /\ CurrentSong = "a"
    /\ CurrentStatus = StatusPlaying
    /\ VoiceConnection = "conn"
    /\ StreamingSession = "stream"
    /\ ~streamPaused
    /\ EncodingSession = "t1"
    /\ encStart = 0
    /\ encState = "running"
    /\ SkipInterrupt = 0
    /\ pc = [t \in Threads |-> IF t = "t1" THEN "select" ELSE "idle"]
    /\ listenCount = 0
    /\ ~crashed

\* C2: two skip commands while a is playing and b, c are queued take exactly
\* one song from the queue: c is never taken.
C2_OneAdvance == Len(SongQueue) >= 1

\* ------------------------------------------------------------ the claims
\* No handler is between two of its steps: each is idle or waits in Play's
\* select.
Settled == \A t \in Threads : Blocked(t)

\* C3: in every state in which no handler is in the middle of an operation,
\* the status is Resting if and only if there is no current song.
C3_RestingIffNoSong ==
    Settled => ((CurrentStatus = StatusResting) <=> (CurrentSong = nil))

\* C4: when Stop() returns, the status is Resting, the queue is empty, there
\* is no current song, no voice connection, no stream handle and no encode
\* handle.
C4_StopReachesResting ==
    [][\A t \in Threads :
          (pc[t] = "stop_final" /\ pc'[t] = "ret") =>
              /\ CurrentStatus' = StatusResting
              /\ SongQueue' = <<>>
              /\ CurrentSong' = nil
              /\ VoiceConnection' = nil
              /\ StreamingSession' = nil
              /\ EncodingSession' = nil]_vars

\* C5: in every state in which no handler is in the middle of an operation,
\* at most one Play invocation waits on a stream it attached.
C5_OnePlaybackLoop ==
    Settled => Cardinality({t \in Threads : pc[t] = "select"}) <= 1

\* The done branch of Play's select is taken by handler t.
DoneStep(t) ==
    pc[t] = "select" /\ pc'[t] # "select" /\ SkipInterrupt' = SkipInterrupt

\* C6: whenever the stream completes while the current song is a live
\* stream, Play(0, currentSong) is called again and nothing is taken from
\* the queue, whatever the status.
C6_LiveStreamResumes ==
    [][\A t \in Threads :
          (DoneStep(t) /\ CurrentSong # nil /\ Source(CurrentSong) = SourceStream) =>
              /\ pc'[t] = "play_entry"
              /\ playSong'[t] = CurrentSong
              /\ startAt'[t] = 0]_vars

\* ------------------------------------------------- a stream that completes
\* The engine while Play(startAt, song) streams the song: a handler waits in
\* Play's select, with any song, start offset, status and queue.
InitDone ==
    /\ SongQueue \in {<<>>, <<"a">>}
    /\ CurrentSong \in Songs
    /\ CurrentStatus \in {StatusResting, StatusPlaying, StatusPaused}
    /\ VoiceConnection = "conn"
    /\ StreamingSession = "stream"
    /\ streamPaused = (CurrentStatus = StatusPaused)
    /\ EncodingSession = "t1"
    /\ encStart \in {0, 10}
    /\ encState = "running"
    /\ SkipInterrupt = 0
    /\ pc = [t \in Threads |-> IF t = "t1" THEN "select" ELSE "idle"]
    /\ startAt = [t \in Threads |-> 0]
    /\ playSong = [t \in Threads |-> nil]
    /\ cont = [t \in Threads |-> "none"]
    /\ crashed = FALSE
    /\ listenCount = 0
    /\ doneStats = <<>>
    /\ enqLog = <<>>
    /\ deqLog = <<>>
    /\ cmdOnly = [t \in Threads |-> FALSE]
    /\ ops = 0
    /\ found = [t \in Threads |-> <<>>]
    /\ tickers = [t \in Threads |-> IF t = "t1" THEN 1 ELSE 0]
    /\ mutex = nil
    /\ botInstances = <<>>
    /\ session = [open |-> FALSE, calls |-> {}]
    /\ db = [tracks |-> {}, history |-> <<>>]
    /\ serial = FALSE

\* No command arrives: the streams complete and Play goes on.
NextDone ==
    \E t \in Threads :
        \/ PlayDone(t)
        \/ PlayEntry(t)
        \/ PlayStream(t)
        \/ StopClear(t)
        \/ StopFinal(t)
        \/ Return(t)

SpecResume == InitDone /\ [][NextDone]_vars

\* The duration the "duration" parameter of the song's URL states.
NominalDuration(song) == ParseDuration(DurationParam(song))

\* C7: when the stream of an on-demand song completes while the status is
\* Playing, with something encoded, songPosition = start offset + position
\* + (encoded - position) positive and below the nominal duration, Play is
\* called again with the same song and songPosition in whole seconds.
C7_ResumeArithmetic ==
    [][\A t \in Threads :
          (/\ DoneStep(t)
           /\ doneStats' # <<>>
           /\ CurrentSong # nil
           /\ Source(CurrentSong) = SourceYouTube
           /\ CurrentStatus = StatusPlaying
           /\ VoiceConnection # nil
           /\ StreamingSession # nil
           /\ DurationPositive(Milliseconds(doneStats'[2]))
           /\ DurationPositive(metricsPosition(encStart, Milliseconds(doneStats'[1]),
                                               Milliseconds(doneStats'[2])))
           /\ DurationLess(metricsPosition(encStart, Milliseconds(doneStats'[1]),
                                           Milliseconds(doneStats'[2])),
                           NominalDuration(CurrentSong)))
          => /\ pc'[t] = "play_entry"
             /\ playSong'[t] = CurrentSong
             /\ startAt'[t] = WholeSeconds(metricsPosition(encStart,
                                  Milliseconds(doneStats'[1]),
                                  Milliseconds(doneStats'[2])))]_vars

\* C8: the play-count is added at most once for one listen of a song.
C8_CountedOnce == listenCount <= 1

\* C9: a Skip() called with status Resting, no current song and an empty
\* queue has left the status, the current song, the queue, the voice
\* connection and the skip signal as they were when it returns.
C9_SkipNothingNoop ==
    [][\A t \in Threads :
          (/\ found[t] # <<>>
           /\ found[t][1] = "Skip"
           /\ pc[t] = "ret"
           /\ pc'[t] = "idle")
          => /\ CurrentStatus' = StatusResting
             /\ CurrentSong' = nil
             /\ SongQueue' = <<>>
             /\ VoiceConnection' = found[t][2]
             /\ SkipInterrupt' = found[t][3]]_vars

\* ------------------------------------------------ Pause and Unpause calls
\* Player.Pause() and Player.Unpause() called by a free handler.
ApiPause(t) ==
    /\ Idle(t)
    /\ ops' = ops + 1
    /\ Goto(t, "pause")
    /\ UNCHANGED <<shared, sessions, playArgs, crashed, hist, logs, cmd>>

ApiUnpause(t) ==
    /\ Idle(t)
    /\ ops' = ops + 1
    /\ Goto(t, "unpause")
    /\ UNCHANGED <<shared, sessions, playArgs, crashed, hist, logs, cmd>>

\* Pause() and Unpause() are called while a song streams, in any status,
\* and the stream may complete.
NextPause ==
    \E t \in Threads :
        \/ ApiPause(t)
        \/ ApiUnpause(t)
        \/ Pause(t)
        \/ Unpause(t)
        \/ UnpauseQueue(t)
        \/ PlayDone(t)
        \/ PlayEntry(t)
        \/ PlayStream(t)
        \/ StopClear(t)
        \/ StopFinal(t)
        \/ Return(t)

SpecPause == InitDone /\ [][NextPause]_vars

\* C10: Pause() executed while the status is not Playing leaves the status,
\* the paused flag of the stream, the queue and the current song as they
\* are; so does Unpause() executed while the status is Playing, and it does
\* not call Play.
C10_PauseUnpauseNoop ==
    [][\A t \in Threads :
          /\ (pc[t] = "pause" /\ pc'[t] # "pause" /\ CurrentStatus # StatusPlaying)
             => UNCHANGED <<CurrentStatus, streamPaused, SongQueue, CurrentSong>>
          /\ (/\ pc[t] \in {"unpause", "unpause_queue"}
              /\ pc'[t] # pc[t]
              /\ CurrentStatus = StatusPlaying)
             => /\ UNCHANGED <<CurrentStatus, streamPaused, SongQueue, CurrentSong>>
                /\ pc'[t] # "play_entry"]_vars

\* Pause() has found a status other than Playing and Unpause() the status
\* Playing, and both are about to return.
C10_Witness ==
    \E t, u \in Threads :
        /\ pc[t] = "ret" /\ found[t] = <<"Pause">>
        /\ pc[u] = "ret" /\ found[u] = <<"Unpause">>

\* C11: Pause() executed with status Playing, a voice connection and a
\* stream pauses the stream and sets the status Paused; Unpause() executed
\* with status Paused then unpauses the stream and sets the status Playing;
\* neither changes the queue or the current song, and the Unpause does not
\* call Play.
C11_PauseUnpauseRoundTrip ==
    [][\A t \in Threads :
          /\ (/\ pc[t] = "pause" /\ pc'[t] # "pause"
              /\ CurrentStatus = StatusPlaying
              /\ VoiceConnection # nil
              /\ StreamingSession # nil)
             => /\ streamPaused'
                /\ CurrentStatus' = StatusPaused
                /\ UNCHANGED <<SongQueue, CurrentSong>>
          /\ (/\ pc[t] = "unpause" /\ pc'[t] # "unpause"
              /\ CurrentStatus = StatusPaused
              /\ VoiceConnection # nil
              /\ StreamingSession # nil)
             => /\ ~streamPaused'
                /\ CurrentStatus' = StatusPlaying
                /\ UNCHANGED <<SongQueue, CurrentSong>>
          /\ (/\ pc[t] = "unpause_queue" /\ pc'[t] # "unpause_queue"
              /\ found[t] = <<"Resumed">>
              /\ CurrentStatus = StatusPlaying)
             => /\ pc'[t] = "ret"
                /\ UNCHANGED <<SongQueue, CurrentSong, CurrentStatus, streamPaused>>]_vars

\* A paused song has been unpaused: Unpause() is about to return with the
\* status Playing, the stream running and the song still current.
C11_Witness ==
    \E t \in Threads :
        /\ pc[t] = "ret"
        /\ found[t] = <<"Resumed">>
        /\ CurrentStatus = StatusPlaying
        /\ StreamingSession # nil
        /\ ~streamPaused
        /\ CurrentSong # nil

\* C12: at most one skip signal is pending, and no Skip() waits at its send
\* because a signal is pending already.
C12_SkipSingleSlot ==
    /\ SkipInterrupt <= SkipCap
    /\ \A t \in Threads : ~(pc[t] = "skip_send" /\ SkipInterrupt = SkipCap)

\* Handler t takes the done branch and goes on without resuming the song.
FinishStep(t) ==
    /\ DoneStep(t)
    /\ doneStats' # <<>>
    /\ ~(pc'[t] = "play_entry" /\ playSong'[t] # nil)

\* C13: when a stream completes without an error and the song is not
\* resumed, Play calls Stop() if the queue is empty and otherwise goes on to
\* Play(0, nil), which takes the head of the queue.
C13_FinishAdvancesOrStops ==
    [][\A t \in Threads :
          (FinishStep(t) /\ ~doneStats'[3])
          => IF SongQueue = <<>>
             THEN pc'[t] = "stop_clear"
             ELSE pc'[t] = "play_entry" /\ playSong'[t] = nil /\ startAt'[t] = 0]_vars

\* C14: when a stream completes with an error other than io.EOF and the
\* song is not resumed, Play sets the status Resting and returns: it does
\* not call Stop(), does not go on to the next song and leaves the queue as
\* it is.
C14_FatalErrorRests ==
    [][\A t \in Threads :
          (FinishStep(t) /\ doneStats'[3])
          => /\ pc'[t] = "ret"
             /\ CurrentStatus' = StatusResting
             /\ UNCHANGED SongQueue]_vars

\* Handler t's Play returns because dca.EncodeFile failed (and not because
\* the queue was empty).
EncodeFailedStep(t) ==
    /\ pc[t] = "play_entry"
    /\ pc'[t] = "ret"
    /\ ~(playSong[t] = nil /\ SongQueue = <<>>)

\* C15: a Play that returns because the encode session could not be opened
\* leaves the status, the current song and the queue as they were when it
\* was called.
C15_EncodeFailureNoChange ==
    [][\A t \in Threads :
          EncodeFailedStep(t) => UNCHANGED <<CurrentStatus, CurrentSong, SongQueue>>]_vars

\* C16: the part of Stop() that disconnects never ends the process: whether
\* or not Disconnect() fails, Stop goes on to the rest of its cleanup.
C16_StopSurvivesDisconnectError ==
    [][\A t \in Threads :
          StopClear(t) => (~crashed' /\ pc'[t] = "stop_final")]_vars

\* C17: Play(offset, song) with a song given makes that song the current
\* song of the encode session it opens, whatever the current song was before,
\* and takes nothing from the queue.
C17_ExplicitSongLoaded ==
    [][\A t \in Threads :
          (PlayEntry(t) /\ playSong[t] # nil)
              => (CurrentSong' = playSong[t] /\ UNCHANGED SongQueue)]_vars

\* C18: a resume after a premature stop neither requeues nor advances: the
\* step that decides to resume, and the start of the Play it calls with the
\* current song, which follows it directly, leave the queue and its order and
\* the current song as they were.
ResumePending(t) == pc[t] = "play_entry" /\ playSong[t] # nil

C18_ResumeKeepsQueueAndSong ==
    [][\A t \in Threads :
          /\ (DoneStep(t) /\ ResumePending(t)')
                => UNCHANGED <<SongQueue, CurrentSong>>
          /\ ResumePending(t)
                => /\ PlayEntry(t)
                   /\ CurrentSong = playSong[t]
                   /\ UNCHANGED <<SongQueue, CurrentSong>>]_vars

C18_Witness ==
    \E t \in Threads :
        /\ pc[t] = "play_wait"
        /\ playSong[t] # nil
        /\ CurrentSong = playSong[t]
        /\ SongQueue # <<>>
        /\ encStart > 0

\* ------------------------------------------------- every song enqueued once
Range(s) == {s[i] : i \in 1..Len(s)}

\* The "play" and "add" commands of CmdPlay for playlists none of whose songs
\* was enqueued before; enqLog keeps the songs enqueued.
CmdPlayOnce(t, list, only) ==
    /\ Idle(t)
    /\ Range(list) \cap Range(enqLog) = {}
    /\ Len(SongQueue) + Len(list) <= MaxQueue
    /\ ops' = ops + 1
    /\ \E failed \in BOOLEAN :
         IF VoiceConnection = nil /\ failed
         THEN UNCHANGED <<VoiceConnection, SongQueue, pc, cmdOnly, enqLog>>
         ELSE /\ VoiceConnection' = "conn"
              /\ SongQueue' = EnqueueAll(SongQueue, list)
              /\ enqLog' = enqLog \o list
              /\ Goto(t, "cmd_check")
              /\ cmdOnly' = [cmdOnly EXCEPT ![t] = only]
    /\ UNCHANGED <<CurrentSong, CurrentStatus, StreamingSession,
                   EncodingSession, SkipInterrupt, sessions, playArgs, crashed,
                   hist, deqLog, found, serial, tickers, mutex, botInstances, session, db>>

StepOnce(t) ==
    \/ \E list \in Playlists, only \in BOOLEAN : CmdPlayOnce(t, list, only)
    \/ CmdCheck(t)
    \/ CmdPause(t)
    \/ Pause(t)
    \/ CmdResume(t)
    \/ Unpause(t)
    \/ UnpauseQueue(t)
    \/ Skip(t)
    \/ SkipSend(t)
    \/ PlayEntry(t)
    \/ PlayStream(t)
    \/ PlayDone(t)
    \/ PlaySkipped(t)
    \/ Return(t)
    \/ CmdStop(t)
    \/ StopClear(t)
    \/ StopFinal(t)

NextOnce == \E t \in Threads : StepOnce(t)

\* The handlers run concurrently and no song is enqueued twice.
SpecOnce == Init /\ [][NextOnce]_vars

\* C19: when no song is enqueued twice, the current song is never in the
\* queue: a song becomes current only as the head of the queue, leaving the
\* queue in the same step, and only songs never enqueued before enter it.
C19_CurrentNotInQueue ==
    /\ [](CurrentSong \notin Range(SongQueue))
    /\ [][/\ (CurrentSong' # CurrentSong /\ CurrentSong' # nil)
               => (SongQueue # <<>> /\ CurrentSong' = Head(SongQueue)
                   /\ SongQueue' = Tail(SongQueue))
          /\ \A s \in Range(SongQueue') \ Range(SongQueue) :
               s \notin Range(enqLog)]_vars

C19_Witness ==
    /\ enqLog = <<"a", "b", "c">>
    /\ CurrentSong = "b"
    /\ SongQueue = <<"c">>

\* C20: a Skip() called with status Playing or Paused is a soft
\* cancellation: while it is in progress (it has set the status and has its
\* signal still to send) the voice connection is neither disconnected nor
\* cleared, also when the stream completes meanwhile.
SkipInProgress(t) == pc[t] = "skip_send" /\ cont[t] = "none"

C20_SkipKeepsVoiceConnection ==
    [][(\E t \in Threads : SkipInProgress(t))
          => (VoiceConnection' = VoiceConnection /\ ~crashed')]_vars

\* C21: a Play that was waiting on its stream while Stop() ran to its end
\* returns, when it observes the completion, without starting another Play:
\* the status stays Resting and the current song none, and no encode session
\* is opened, also when songs were enqueued after Stop returned.
StoppedWhileWaiting(t) ==
    /\ pc[t] = "select"
    /\ StreamingSession = nil
    /\ CurrentSong = nil
    /\ CurrentStatus = StatusResting
    /\ \A u \in Threads : pc[u] \notin {"stop_clear", "stop_final"}

C21_StopCancelsWaitingPlay ==
    [][\A t \in Threads :
          (StoppedWhileWaiting(t) /\ DoneStep(t))
              => (pc'[t] # "play_entry" /\ ~crashed')]_vars

\* ------------------------------------------ the queue operations, step by step
\* Enqueue, Dequeue and ClearQueue called concurrently by the handlers, each
\* in the steps of its code: p.Lock(), the read of p.SongQueue, the
\* assignment to p.SongQueue, and the deferred p.Unlock() on return.  The
\* handler's locals are kept in found[t]; the mutex is held by the handler
\* that is between its Lock and its return.
MaxCalls == 5

SongOrder == <<"a", "b", "c">>

InQueueOp(t) == pc[t] \in {"enq_locked", "enq_read", "deq_locked", "deq_read",
                           "clr_locked", "clr_read"}

\* A Lock that never waits.
LockNoWait(t) == TRUE

\* An Unlock that leaves the mutex with its holder.
UnlockKept(t) == t

\* p.Lock(): the caller goes on when no handler holds the mutex (it waits
\* for ever when it holds the mutex itself: sync.Mutex is not reentrant).
Lock(t) == mutex = nil

\* The deferred p.Unlock(): the mutex after it.
Unlock(t) == nil

\* The number of Enqueue calls made so far.
EnqueueCalls ==
    Len(enqLog) + Cardinality({u \in Threads : pc[u] \in {"enq_locked", "enq_read"}})

QueueCall(t, label, locals) ==
    /\ pc[t] = "idle"
    /\ ops < MaxCalls
    /\ Lock(t)
    /\ ops' = ops + 1
    /\ mutex' = t
    /\ Goto(t, label)
    /\ found' = [found EXCEPT ![t] = locals]
    /\ UNCHANGED <<shared, sessions, playArgs, crashed, hist, logs, cmdOnly, serial, tickers, botInstances, session, db>>

QueueRead(t, from, to) ==
    /\ pc[t] = from
    /\ Goto(t, to)
    /\ found' = [found EXCEPT ![t] = Append(found[t], SongQueue)]
    /\ UNCHANGED <<shared, sessions, playArgs, crashed, hist, logs, cmdOnly, serial, tickers, mutex, botInstances, session, db, ops>>

QueueWrite(t, from, q, elog, dlog) ==
    /\ pc[t] = from
    /\ SongQueue' = q
    /\ enqLog' = elog
    /\ deqLog' = dlog
    /\ mutex' = Unlock(t)
    /\ Goto(t, "idle")
    /\ found' = [found EXCEPT ![t] = <<>>]
    /\ UNCHANGED <<CurrentSong, CurrentStatus, VoiceConnection, StreamingSession,
                   EncodingSession, SkipInterrupt, sessions, playArgs, crashed,
                   hist, cmdOnly, serial, tickers, botInstances, session, db, ops>>

\* Player.Enqueue(song), each call with a song of its own.
EnqueueLock(t) ==
    /\ EnqueueCalls < Len(SongOrder)
    /\ QueueCall(t, "enq_locked", <<SongOrder[EnqueueCalls + 1]>>)

EnqueueRead(t) == QueueRead(t, "enq_locked", "enq_read")

EnqueueWrite(t) ==
    /\ pc[t] = "enq_read"
    /\ QueueWrite(t, "enq_read", Enqueue(found[t][2], found[t][1]),
                  Append(enqLog, found[t][1]), deqLog)

\* Player.Dequeue(); the log keeps the song it returns.
DequeueLock(t) == QueueCall(t, "deq_locked", <<"Dequeue">>)

DequeueRead(t) == QueueRead(t, "deq_locked", "deq_read")

DequeueWrite(t) ==
    /\ pc[t] = "deq_read"
    /\ QueueWrite(t, "deq_read",
                  IF Len(found[t][2]) = 0 THEN SongQueue ELSE DequeueRest(found[t][2]),
                  enqLog,
                  Append(deqLog, [op |-> "Dequeue",
                                  songs |-> IF Len(found[t][2]) = 0 THEN <<>>
                                            ELSE <<DequeueResult(found[t][2])>>]))

\* Player.ClearQueue(); the log keeps the songs that were in the queue it
\* replaced.
ClearQueueLock(t) == QueueCall(t, "clr_locked", <<"ClearQueue">>)

ClearQueueRead(t) == QueueRead(t, "clr_locked", "clr_read")

ClearQueueWrite(t) ==
    /\ pc[t] = "clr_read"
    /\ QueueWrite(t, "clr_read",
                  IF Len(found[t][2]) = 0 THEN SongQueue ELSE <<>>,
                  enqLog,
                  Append(deqLog, [op |-> "ClearQueue",
                                  songs |-> IF Len(found[t][2]) = 0 THEN <<>>
                                            ELSE SongQueue]))

NextLocked ==
    \E t \in Threads :
        \/ EnqueueLock(t)
        \/ EnqueueRead(t)
        \/ EnqueueWrite(t)
        \/ DequeueLock(t)
        \/ DequeueRead(t)
        \/ DequeueWrite(t)
        \/ ClearQueueLock(t)
        \/ ClearQueueRead(t)
        \/ ClearQueueWrite(t)

SpecLocked == Init /\ [][NextLocked]_vars

\* How many times song s occurs in the sequence q.
Occurrences(q, s) == Cardinality({i \in 1..Len(q) : q[i] = s})

\* How many times song s was returned by a Dequeue (op = "Dequeue") or
\* removed by a ClearQueue (op = "ClearQueue").
Taken(op, s) ==
    Cardinality({i \in 1..Len(deqLog) :
                    deqLog[i].op = op /\ s \in Range(deqLog[i].songs)})

\* C22: under any interleaving of Enqueue, Dequeue and ClearQueue calls no
\* enqueued song is lost or duplicated: each is still in the queue once, or
\* was returned by exactly one Dequeue, or was removed by a ClearQueue that
\* ran after its Enqueue; and nothing else is in the queue.
C22_QueueSerialized ==
    /\ \A s \in Range(enqLog) :
          Occurrences(SongQueue, s) + Taken("Dequeue", s) + Taken("ClearQueue", s) = 1
    /\ Range(SongQueue) \subseteq Range(enqLog)

\* Three songs were enqueued; one was returned by a Dequeue, one removed by
\* a ClearQueue, and one is in the queue.
C22_Witness ==
    /\ Len(enqLog) = 3
    /\ Len(SongQueue) = 1
    /\ \E s \in Songs : Taken("Dequeue", s) = 1
    /\ \E s \in Songs : Taken("ClearQueue", s) = 1
    /\ \A t \in Threads : pc[t] = "idle"

\* C23: ClearQueue() leaves the queue empty, whether it was empty or not,
\* a second ClearQueue() changes nothing more, and the status, the current
\* song, the voice connection and the encode and stream sessions are as they
\* were.
ClearQueueStep(t) == pc[t] = "idle" /\ pc'[t] = "stop_clear"

C23_ClearQueueIdempotent ==
    [][\A t \in Threads :
          ClearQueueStep(t)
             => /\ SongQueue' = <<>>
                /\ ClearQueue(SongQueue') = SongQueue'
                /\ ClearQueue(ClearQueue(SongQueue)) = ClearQueue(SongQueue)
                /\ UNCHANGED <<CurrentStatus, CurrentSong, VoiceConnection,
                               StreamingSession, EncodingSession>>]_vars

\* The queue held b and c while a was playing, and ClearQueue() has emptied it.
C23_Witness ==
    \E t \in Threads :
        /\ pc[t] = "stop_clear"
        /\ enqLog = <<"a", "b", "c">>
        /\ CurrentSong = "a"
        /\ CurrentStatus = StatusPlaying
        /\ StreamingSession # nil
        /\ SongQueue = <<>>

\* ------------------------------------------------- GetSongQueue by a reader
\* Player.GetSongQueue() returns p.SongQueue: it takes no lock and makes no
\* copy.  The slice header it reads is several words, read one after the
\* other while Enqueue, Dequeue or ClearQueue may assign p.SongQueue: the
\* slice returned starts where the queue started at one read and has the
\* length the queue had at the other.  Past the end of the queue read first
\* it holds whatever the memory holds.
Memory == Songs \cup {nil}

\* The slices a reader can get from the start of q1 and the length of q2.
Slices(q1, q2) ==
    IF q1 = q2 THEN {q1}
    ELSE {s \in UNION {[1..n -> Memory] : n \in {Len(q2)}} :
             \A i \in 1..Min(Len(q1), Len(q2)) : s[i] = q1[i]}

GetSongQueueCall(t) ==
    /\ pc[t] = "idle"
    /\ ops < MaxCalls
    /\ ops' = ops + 1
    /\ Goto(t, "get_first")
    /\ found' = [found EXCEPT ![t] = <<"GetSongQueue">>]
    /\ UNCHANGED <<shared, sessions, playArgs, crashed, hist, logs, cmdOnly, serial, tickers, mutex, botInstances, session, db>>

GetSongQueueFirst(t) == QueueRead(t, "get_first", "get_second")

GetSongQueueSecond(t) ==
    /\ pc[t] = "get_second"
    /\ \E s \in Slices(found[t][2], SongQueue) :
         found' = [found EXCEPT ![t] = <<"GetSongQueue", found[t][2], SongQueue, s>>]
    /\ Goto(t, "get_done")
    /\ UNCHANGED <<shared, sessions, playArgs, crashed, hist, logs, cmdOnly, serial, tickers, mutex, botInstances, session, db, ops>>

GetSongQueueReturn(t) ==
    /\ pc[t] = "get_done"
    /\ Goto(t, "idle")
    /\ found' = [found EXCEPT ![t] = <<>>]
    /\ UNCHANGED <<shared, sessions, playArgs, crashed, hist, logs, cmdOnly, serial, tickers, mutex, botInstances, session, db, ops>>

NextSnapshot ==
    \/ NextLocked
    \/ \E t \in Threads :
         \/ GetSongQueueCall(t)
         \/ GetSongQueueFirst(t)
         \/ GetSongQueueSecond(t)
         \/ GetSongQueueReturn(t)

SpecSnapshot == Init /\ [][NextSnapshot]_vars

\* C24: the sequence GetSongQueue() returns is a consistent snapshot: it is
\* the queue as it was at a moment of the call, never a queue with a
\* concurrent Enqueue, Dequeue or ClearQueue half applied.
C24_ConsistentSnapshot ==
    \A t \in Threads :
        pc[t] = "get_done" => found[t][4] \in {found[t][2], found[t][3]}

\* C25: the ticker a Play invocation starts is stopped before a Play it
\* calls (a resume, or the advance to the next song) starts streaming, so a
\* handler never has more than one ticker running.
C25_OneTicker == \A t \in Threads : tickers[t] <= 1

\* C26: whenever no engine call is in progress, the status Resting means
\* that the engine has neither an encode session nor a stream attached, and
\* the status Playing or Paused means that it has a stream attached.
C26_HandlesFollowStatus ==
    Settled =>
        /\ CurrentStatus = StatusResting
              => (EncodingSession = nil /\ StreamingSession = nil)
        /\ CurrentStatus \in {StatusPlaying, StatusPaused}
              => StreamingSession # nil

\* C27: when the stream of a song that is not a live stream completes and
\* the encode session reports a duration of zero, or the position computed by
\* metrics is zero or negative, Play does not call Play again for the same
\* song, whatever duration the song's URL states.
NoProgress(startTime, pos, encDur) ==
    \/ encDur = 0
    \/ ~DurationLess(ToDuration(0),
                     metricsPosition(startTime, Milliseconds(pos), Milliseconds(encDur)))

C27_NoResumeWithoutProgress ==
    [][\A t \in Threads :
          (/\ DoneStep(t)
           /\ doneStats' # <<>>
           /\ CurrentSong # nil
           /\ Source(CurrentSong) # SourceStream
           /\ NoProgress(encStart, doneStats'[1], doneStats'[2]))
              => ~ResumePending(t)']_vars

\* The stream of song b, whose URL states 180 s, has completed while the
\* status was Playing with nothing encoded and the position zero, and Play
\* went on to the next song or to Stop.
C27_Witness ==
    \E t \in Threads :
        /\ pc[t] \in {"play_entry", "stop_clear"}
        /\ playSong[t] = nil
        /\ doneStats # <<>>
        /\ doneStats[2] = 0
        /\ encStart = 0
        /\ CurrentSong = "b"
        /\ CurrentStatus = StatusPlaying
        /\ StreamingSession # nil
        /\ VoiceConnection # nil

\* ------------------------------------------------- writes and the mutex
\* The engine's fields the next step of a handler at a label assigns, each
\* with whether the assignment is made with the Player's mutex held: only
\* SetVoiceConnection (called by Stop) and SetCurrentStatus (called by no
\* engine operation) lock; Play, Skip, Pause, Unpause and the rest of Stop
\* assign the fields directly.
Write(f, l) == [field |-> f, locked |-> l]

Writes(t) ==
    CASE pc[t] = "play_entry" ->
             IF ~PlayDequeues(playSong[t]) THEN {Write("EncodingSession", FALSE)}
             ELSE IF SongQueue = <<>>
             THEN {Write("CurrentSong", FALSE), Write("CurrentStatus", FALSE)}
             ELSE {Write("CurrentSong", FALSE), Write("EncodingSession", FALSE)}
      [] pc[t] = "play_wait" -> {Write("StreamingSession", FALSE),
                                 Write("CurrentStatus", FALSE)}
      [] pc[t] = "select" -> {Write("CurrentStatus", FALSE)}
      [] pc[t] = "pause" ->
             IF VoiceConnection # nil /\ StreamingSession # nil
                /\ CurrentStatus = StatusPlaying
             THEN {Write("CurrentStatus", FALSE)} ELSE {}
      [] pc[t] = "unpause" ->
             IF VoiceConnection # nil /\ StreamingSession # nil
                /\ CurrentStatus = StatusPaused
             THEN {Write("CurrentStatus", FALSE)} ELSE {}
      [] pc[t] = "ret" -> IF cont[t] = "setPlaying"
                          THEN {Write("CurrentStatus", FALSE)} ELSE {}
      [] pc[t] = "stop_clear" ->
             IF VoiceConnection # nil THEN {Write("VoiceConnection", TRUE)} ELSE {}
      [] pc[t] = "stop_final" -> {Write("StreamingSession", FALSE),
                                  Write("CurrentSong", FALSE),
                                  Write("CurrentStatus", FALSE)}
      [] OTHER -> {}

\* C28: the assignments Play, Skip, Pause, Unpause and Stop make to the voice
\* connection, the encode session, the stream, the current song and the
\* status are made with the mutex held, so two handlers are never both at an
\* assignment to the same field unless both make it under the lock.
C28_WritesUnderLock ==
    \A t, u \in Threads :
        (t # u /\ ~Blocked(t) /\ ~Blocked(u))
            => \A w \in Writes(t), v \in Writes(u) :
                  w.field = v.field => (w.locked /\ v.locked)

\* C29: the signal a Skip() sends is taken by a Play that was waiting, never
\* by the Play(0, nil) that this Skip() itself calls: the song that Play
\* has dequeued goes on streaming.
C29_SkipSignalNotOwn ==
    [][\A t \in Threads :
          PlaySkipped(t) => found[t] # <<"Skipping", "sent">>]_vars

\* ----------------------------------------------------- draining the queue
\* Play(0, nil) is called with the voice connection ready and a queue of
\* songs that are not live streams; no command arrives.
DrainQueues ==
    {<<>>, <<"a">>, <<"b">>, <<"a", "b">>, <<"b", "a">>, <<"a", "b", "a">>,
     <<"b", "a", "b">>}

InitDrain ==
    /\ SongQueue \in DrainQueues
    /\ CurrentSong = nil
    /\ CurrentStatus = StatusResting
    /\ VoiceConnection = "conn"
    /\ StreamingSession = nil
    /\ EncodingSession = nil
    /\ SkipInterrupt = 0
    /\ streamPaused = FALSE
    /\ encStart = 0
    /\ encState = "none"
    /\ pc = [t \in Threads |-> IF t = "t1" THEN "play_entry" ELSE "idle"]
    /\ startAt = [t \in Threads |-> 0]
    /\ playSong = [t \in Threads |-> nil]
    /\ cont = [t \in Threads |-> "none"]
    /\ crashed = FALSE
    /\ listenCount = 0
    /\ doneStats = <<>>
    /\ enqLog = <<>>
    /\ deqLog = <<>>
    /\ cmdOnly = [t \in Threads |-> FALSE]
    /\ ops = 0
    /\ found = [t \in Threads |-> <<>>]
    /\ tickers = [t \in Threads |-> 0]
    /\ mutex = nil
    /\ botInstances = <<>>
    /\ session = [open |-> FALSE, calls |-> {}]
    /\ db = [tracks |-> {}, history |-> <<>>]
    /\ serial = FALSE

\* Every encode session and stream opens, and every stream completes
\* without an error and without the song being taken as interrupted.
NextDrain ==
    \E t \in Threads :
        \/ PlayEntry(t) /\ ~EncodeFailedStep(t)
        \/ PlayStream(t) /\ pc'[t] = "select"
        \/ PlayDone(t) /\ ~crashed' /\ ~doneStats'[3] /\ ~ResumePending(t)'
        \/ StopClear(t)
        \/ StopFinal(t)
        \/ Return(t)

SpecDrain == InitDrain /\ [][NextDrain]_vars

\* C30: when the Play(0, nil) that was called with n songs queued returns,
\* the queue is empty, the status is Resting and there is no current song.
C30_PlayDrainsQueue ==
    [][\A t \in Threads :
          (pc[t] = "ret" /\ pc'[t] = "idle")
              => (SongQueue' = <<>> /\ CurrentStatus' = StatusResting
                  /\ CurrentSong' = nil)]_vars

\* C31: every resume of a song that is not a live stream calls Play with an
\* offset, in whole seconds, greater than the offset the encode session that
\* just ended had started at.
C31_ResumeAdvances ==
    [][\A t \in Threads :
          (/\ DoneStep(t)
           /\ ResumePending(t)'
           /\ CurrentSong # nil
           /\ Source(CurrentSong) # SourceStream)
              => startAt'[t] > encStart]_vars

\* --------------------------------------- the mutex in the engine's operations
\* SetVoiceConnection and SetCurrentStatus, and Stop with the two locking
\* operations it calls, in the steps of their code, next to the queue
\* operations: each p.Lock() is a step of its own, which the caller can only
\* take while nobody holds the mutex.
SetVoiceConnectionLock(t, vc) == QueueCall(t, "setvc_locked", <<vc>>)

SetCurrentStatusLock(t, status) == QueueCall(t, "setst_locked", <<status>>)

\* The assignment of a setter and its return, with the deferred p.Unlock().
SetterWrite(t, from, to, vc, status, locals) ==
    /\ pc[t] = from
    /\ VoiceConnection' = vc
    /\ CurrentStatus' = status
    /\ mutex' = Unlock(t)
    /\ Goto(t, to)
    /\ found' = [found EXCEPT ![t] = locals]
    /\ UNCHANGED <<SongQueue, CurrentSong, StreamingSession, EncodingSession,
                   SkipInterrupt, sessions, playArgs, crashed, hist, logs, cmdOnly,
                   serial, tickers, botInstances, session, db, ops>>

SetVoiceConnectionWrite(t) ==
    /\ pc[t] = "setvc_locked"
    /\ SetterWrite(t, "setvc_locked", "idle", found[t][1], CurrentStatus, <<>>)

SetCurrentStatusWrite(t) ==
    /\ pc[t] = "setst_locked"
    /\ SetterWrite(t, "setst_locked", "idle", VoiceConnection, found[t][1], <<>>)

\* A step of Stop that takes or leaves the mutex and assigns no field but
\* the queue.
StopStep(t, from, to, q, m, locals) ==
    /\ pc[t] = from
    /\ SongQueue' = q
    /\ mutex' = m
    /\ Goto(t, to)
    /\ found' = [found EXCEPT ![t] = locals]
    /\ UNCHANGED <<CurrentSong, CurrentStatus, VoiceConnection, StreamingSession,
                   EncodingSession, SkipInterrupt, sessions, playArgs, crashed,
                   hist, logs, cmdOnly, serial, tickers, botInstances, session, db, ops>>

\* Stop() is called, and calls p.ClearQueue(): its p.Lock().
StopClearQueueLock(t) ==
    /\ ops < MaxCalls
    /\ Lock(t)
    /\ ops' = ops + 1
    /\ mutex' = t
    /\ pc[t] = "idle"
    /\ Goto(t, "stop_clr_locked")
    /\ found' = [found EXCEPT ![t] = <<"Stop">>]
    /\ UNCHANGED <<shared, sessions, playArgs, crashed, hist, logs, cmdOnly, serial, tickers, botInstances, session, db>>

\* ClearQueue's assignment and return inside Stop.
StopClearQueueWrite(t) ==
    StopStep(t, "stop_clr_locked", "stop_vc", ClearQueue(SongQueue), Unlock(t), <<"Stop">>)

\* if p.VoiceConnection != nil: Disconnect() and p.SetVoiceConnection(nil),
\* its p.Lock().
StopSetVoiceConnectionLock(t) ==
    /\ pc[t] = "stop_vc"
    /\ IF VoiceConnection = nil
       THEN StopStep(t, "stop_vc", "stop_rest", SongQueue, mutex, <<"Stop">>)
       ELSE /\ Lock(t)
            /\ StopStep(t, "stop_vc", "stop_vc_locked", SongQueue, t, <<"Stop">>)

StopSetVoiceConnectionWrite(t) ==
    SetterWrite(t, "stop_vc_locked", "stop_rest", nil, CurrentStatus,
                <<"Stop", "SetVoiceConnection">>)

\* The rest of Stop, which locks nothing, and its return.
StopRest(t) ==
    /\ pc[t] = "stop_rest"
    /\ StreamingSession' = nil
    /\ EncodingSession' = StopEncodingSession(EncodingSession)
    /\ CurrentSong' = nil
    /\ CurrentStatus' = StatusResting
    /\ Goto(t, "idle")
    /\ found' = [found EXCEPT ![t] = <<>>]
    /\ UNCHANGED <<SongQueue, VoiceConnection, SkipInterrupt, sessions, playArgs,
                   crashed, hist, logs, cmdOnly, serial, tickers, mutex, botInstances, session, db, ops>>

NextMutex ==
    \/ NextLocked
    \/ \E t \in Threads :
         \/ \E vc \in {nil, "conn"} : SetVoiceConnectionLock(t, vc)
         \/ SetVoiceConnectionWrite(t)
         \/ \E status \in {StatusResting, StatusPlaying, StatusPaused} :
               SetCurrentStatusLock(t, status)
         \/ SetCurrentStatusWrite(t)
         \/ StopClearQueueLock(t)
         \/ StopClearQueueWrite(t)
         \/ StopSetVoiceConnectionLock(t)
         \/ StopSetVoiceConnectionWrite(t)
         \/ StopRest(t)

SpecMutex == Init /\ [][NextMutex]_vars

\* The labels at which a handler is about to call p.Lock(), and those at
\* which it has returned to its caller.
LockCallLabels == {"idle", "stop_vc"}
ReturnedLabels == {"idle"}

\* C32: no operation calls p.Lock() while it holds the mutex itself, and
\* every operation has released the mutex when it returns.
C32_NoSelfDeadlock ==
    \A t \in Threads :
        pc[t] \in LockCallLabels \cup ReturnedLabels => mutex # t

\* Stop() has called ClearQueue() and SetVoiceConnection(nil), each of which
\* took and released the mutex, and goes on without it.
C32_Witness ==
    \E t \in Threads :
        /\ pc[t] = "stop_rest"
        /\ found[t] = <<"Stop", "SetVoiceConnection">>
        /\ VoiceConnection = nil
        /\ mutex = nil

\* ------------------------------------------- the instances and their guilds
\* The guilds main starts an instance for, in the order it starts them.
GuildIDs == <<"g1", "g2">>

\* The guild id a message carries: one of those guilds, a guild no instance
\* was started for, or none (a direct message).
MessageGuilds == {"g1", "g2", "g3", ""}

\* The commands of the messages, after parseCommand and getCanonicalCommand.
CommandNames == {"add", "play", "exit"}

\* discordgo.MessageCreate
Messages == [GuildID : MessageGuilds, command : CommandNames]

\* The messages whose handlers may be running at a time.
MaxMessages == 1

\* NewPlayer(guildID)
NewPlayer ==
    [SongQueue |-> <<>>, CurrentStatus |-> StatusResting, CurrentSong |-> nil,
     VoiceConnection |-> nil]

\* NewDiscord(session, guildID): d.GuildID is left empty.
NewDiscord == [Player |-> NewPlayer, GuildID |-> "", InstanceActive |-> TRUE]

\* Discord.Start(guildID): d.GuildID = guildID (the handler it adds to the
\* session is in session.calls once per message).
Start(d, guildID) == [d EXCEPT !.GuildID = guildID]

\* startBotInstances(session, guildID), called by main for each guild before
\* the session is opened.
startBotInstances ==
    /\ ~session.open
    /\ Cardinality(DOMAIN botInstances) < Len(GuildIDs)
    /\ LET guildID == GuildIDs[Cardinality(DOMAIN botInstances) + 1]
       IN  botInstances' = [g \in DOMAIN botInstances \cup {guildID} |->
                               IF g = guildID THEN Start(NewDiscord, guildID)
                                              ELSE botInstances[g]]
    /\ UNCHANGED <<shared, sessions, playArgs, crashed, hist, logs, pc, ops, cmdOnly,
                   found, serial, tickers, mutex, session, db>>

\* main: dg.Open(), after the instances are started.
Open ==
    /\ ~session.open
    /\ Cardinality(DOMAIN botInstances) = Len(GuildIDs)
    /\ session' = [session EXCEPT !.open = TRUE]
    /\ UNCHANGED <<shared, sessions, playArgs, crashed, hist, logs, pc, ops, cmdOnly,
                   found, serial, tickers, mutex, botInstances, db>>

\* A message arrives: the session calls every handler added to it, the
\* Commands method of every instance, each in a goroutine of its own.
MessageCreate(m) ==
    /\ session.open
    /\ Cardinality({c[2] : c \in session.calls}) < MaxMessages
    /\ \A c \in session.calls : c[2] # m
    /\ session' = [session EXCEPT !.calls = @ \cup {<<g, m>> : g \in DOMAIN botInstances}]
    /\ UNCHANGED <<shared, sessions, playArgs, crashed, hist, logs, pc, ops, cmdOnly,
                   found, serial, tickers, mutex, botInstances, db>>

\* An instance is taken out of service.
Deactivate(g) ==
    /\ g \in DOMAIN botInstances
    /\ botInstances[g].InstanceActive
    /\ botInstances' = [botInstances EXCEPT ![g].InstanceActive = FALSE]
    /\ UNCHANGED <<shared, sessions, playArgs, crashed, hist, logs, pc, ops, cmdOnly,
                   found, serial, tickers, mutex, session, db>>

\* A guild check that lets every message through.
AnyGuild(m, d) == TRUE

\* Discord.Commands: m.GuildID != d.GuildID returns.
OwnGuild(m, d) == m.GuildID = d.GuildID

\* What a command does to the Player of the instance that handles it, the
\* author being in a voice channel: "add" and "play" join the channel and
\* enqueue a song, and "play" starts the head of the queue unless the player
\* is playing; "exit" clears the queue and stops.
Handle(p, command) ==
    LET joined == [p EXCEPT !.VoiceConnection = "conn",
                            !.SongQueue = Enqueue(@, "a")]
    IN  CASE command = "add" -> joined
          [] command = "play" ->
                IF CmdStartsPlay(FALSE, p.CurrentStatus)
                THEN [joined EXCEPT !.CurrentSong = Head(joined.SongQueue),
                                    !.SongQueue = Tail(@),
                                    !.CurrentStatus = StatusPlaying]
                ELSE joined
          [] command = "exit" -> NewPlayer

\* Discord.Commands(s, m) of the instance started for guild g.
Commands(g, m) ==
    /\ <<g, m>> \in session.calls
    /\ m.command = "exit" \/ Len(botInstances[g].Player.SongQueue) < MaxQueue
    /\ session' = [session EXCEPT !.calls = @ \ {<<g, m>>}]
    /\ LET d == botInstances[g]
       IN  botInstances' =
               IF OwnGuild(m, d) /\ d.InstanceActive
               THEN [botInstances EXCEPT ![g].Player = Handle(@, m.command)]
               ELSE botInstances
    /\ UNCHANGED <<shared, sessions, playArgs, crashed, hist, logs, pc, ops, cmdOnly,
                   found, serial, tickers, mutex, db>>

NextGuilds ==
    \/ startBotInstances
    \/ Open
    \/ \E m \in Messages : MessageCreate(m)
    \/ \E g \in DOMAIN botInstances : Deactivate(g)
    \/ \E g \in DOMAIN botInstances, m \in Messages : Commands(g, m)

SpecGuilds == Init /\ [][NextGuilds]_vars

\* C33: the Player of an instance changes in a step only when that step is
\* the instance handling a message whose guild id is the instance's GuildID,
\* the instance being active; a message of another guild, and a message to
\* an inactive instance, leave it as it was.
C33_GuildIsolation ==
    [][\A g \in DOMAIN botInstances :
          botInstances'[g].Player # botInstances[g].Player
              => \E m \in Messages :
                    /\ <<g, m>> \in session.calls
                    /\ <<g, m>> \notin session'.calls
                    /\ m.GuildID = botInstances[g].GuildID
                    /\ botInstances[g].InstanceActive]_vars

\* Both instances have handled the messages sent so far, one of them a play
\* command of guild g1: the Player of g1 is playing with a song queued,
\* that of g2 is as NewPlayer made it.
C33_Witness ==
    /\ session.open
    /\ session.calls = {}
    /\ DOMAIN botInstances = {"g1", "g2"}
    /\ botInstances["g1"].Player.CurrentStatus = StatusPlaying
    /\ botInstances["g1"].Player.SongQueue # <<>>
    /\ botInstances["g2"].Player = NewPlayer
    /\ botInstances["g2"].InstanceActive

\* C34: an add command appends its songs to the queue in playlist order (or
\* leaves the queue as it was when the voice channel cannot be joined) and
\* never goes on to Play, whatever the status; a play command goes on to
\* Play(0, nil) after enqueuing only when the status it then reads is not
\* Playing.
C34_AddOnlyEnqueues ==
    [][\A t \in Threads :
          /\ \A list \in Playlists :
                CmdPlay(t, list, TRUE) => SongQueue' \in {SongQueue, SongQueue \o list}
          /\ CmdCheck(t) /\ cmdOnly[t] => pc'[t] = "idle"
          /\ CmdCheck(t) /\ pc'[t] = "play_entry"
                => /\ CurrentStatus # StatusPlaying
                   /\ startAt[t] = 0
                   /\ playSong[t] = nil]_vars

\* An add command has enqueued its songs while nothing is playing, and is
\* about to test whether to call Play.
C34_Witness ==
    \E t \in Threads :
        /\ pc[t] = "cmd_check"
        /\ cmdOnly[t]
        /\ CurrentStatus # StatusPlaying
        /\ CurrentSong = nil
        /\ SongQueue # <<>>

\* ------------------------------------------------------ the history records
\* The guild ids and the song ids (Song.ID, the track's YTID) of the calls.
HistoryGuilds == {"g1", "g2"}
YTIDs == {"a"}

\* The durations, in seconds, the calls add: the ticker of Play adds its
\* interval of two seconds.
Durations == {2}

\* The updates that may be between their read and their write at a time.
MaxUpdates == 2

\* The play counts and the summed durations the records are followed up to.
MaxPlayCount == 2
MaxDuration == 4

\* db.GetTrackByYTID(ytid) returns an error.
NoTrack(ytid) == ytid \notin db.tracks

\* db.GetHistoryByTrackIDAndGuildID(track.ID, guildID) returns an error.
NoHistory(ytid, guildID) == <<ytid, guildID>> \notin DOMAIN db.history

\* db.History as db.CreateHistory stores it.
NewHistory == [PlayCount |-> 0, Duration |-> 0]

\* MelodixHistory.AddTrackToHistory(guildID, song): the track is created when
\* there is none with the song's id, and so is the history record of the
\* track and the guild.
AddTrackToHistory(guildID, ytid) ==
    /\ NoTrack(ytid) \/ NoHistory(ytid, guildID)
    /\ db' = [tracks |-> db.tracks \cup {ytid},
              history |-> [k \in DOMAIN db.history \cup {<<ytid, guildID>>} |->
                              IF k \in DOMAIN db.history THEN db.history[k]
                                                         ELSE NewHistory]]
    /\ UNCHANGED <<shared, sessions, playArgs, crashed, hist, logs, pc, ops, cmdOnly,
                   found, serial, tickers, mutex, botInstances, session>>

\* The three updates of the statistics.
StatsKinds == {"AddPlaybackAllStats", "AddPlaybackCountStats", "AddPlaybackDurationStats"}

\* newPlayCount and newDuration, from the record read.
newPlayCount(kind, record) ==
    IF kind = "AddPlaybackDurationStats" THEN record.PlayCount
                                         ELSE record.PlayCount + 1
newDuration(kind, record, duration) ==
    IF kind = "AddPlaybackCountStats" THEN record.Duration
                                      ELSE record.Duration + duration

\* One of the three updates is called and reads the track and the history
\* record: it returns the error of a read that fails, and otherwise goes on
\* to db.UpdateTrackStatsForGuild with the record it read.
AddPlaybackStatsRead(t, kind, guildID, ytid, duration) ==
    /\ Idle(t)
    /\ IF NoTrack(ytid) \/ NoHistory(ytid, guildID)
       THEN /\ found' = [found EXCEPT ![t] = <<"history", "error">>]
            /\ UNCHANGED pc
       ELSE LET record == db.history[<<ytid, guildID>>]
            IN  /\ Cardinality({u \in Threads : pc[u] = "history_update"}) < MaxUpdates
                /\ newPlayCount(kind, record) <= MaxPlayCount
                /\ newDuration(kind, record, duration) <= MaxDuration
                /\ found' = [found EXCEPT ![t] =
                                <<"history", kind, <<ytid, guildID>>, duration, record>>]
                /\ Goto(t, "history_update")
    /\ UNCHANGED <<shared, sessions, playArgs, crashed, hist, logs, ops, cmdOnly,
                   serial, tickers, mutex, botInstances, session, db>>

\* db.UpdateTrackStatsForGuild(trackID, guildID, newPlayCount, newDuration)
UpdateTrackStatsForGuild(key, count, duration) ==
    [db EXCEPT !.history[key] = [PlayCount |-> count, Duration |-> duration]]

\* The update writes newPlayCount and newDuration, and returns.
AddPlaybackStatsUpdate(t) ==
    /\ pc[t] = "history_update"
    /\ LET kind == found[t][2]
           key == found[t][3]
           duration == found[t][4]
           record == found[t][5]
       IN  db' = UpdateTrackStatsForGuild(key, newPlayCount(kind, record),
                                          newDuration(kind, record, duration))
    /\ found' = [found EXCEPT ![t] = <<>>]
    /\ Goto(t, "idle")
    /\ UNCHANGED <<shared, sessions, playArgs, crashed, hist, logs, ops, cmdOnly,
                   serial, tickers, mutex, botInstances, session>>

NextHistory ==
    \/ \E guildID \in HistoryGuilds, ytid \in YTIDs : AddTrackToHistory(guildID, ytid)
    \/ \E t \in Threads, kind \in StatsKinds, guildID \in HistoryGuilds,
          ytid \in YTIDs, duration \in Durations :
            AddPlaybackStatsRead(t, kind, guildID, ytid, duration)
    \/ \E t \in Threads : AddPlaybackStatsUpdate(t)

SpecHistory == Init /\ [][NextHistory]_vars

\* What an update adds to the play count and to the duration of its record.
CountAdded(kind) == IF kind = "AddPlaybackDurationStats" THEN 0 ELSE 1
DurationAdded(kind, duration) == IF kind = "AddPlaybackCountStats" THEN 0 ELSE duration

\* C35: an update of the statistics changes only its own counter of its own
\* record: AddPlaybackCountStats adds 1 to the play count and leaves the
\* duration as it is, AddPlaybackDurationStats adds the duration and leaves
\* the play count as it is, AddPlaybackAllStats does both; a call that finds
\* no track or no history record writes nothing.
C35_OwnCounterOnly ==
    [][\A t \in Threads :
          /\ AddPlaybackStatsUpdate(t) =>
                LET kind == found[t][2]
                    key == found[t][3]
                IN  /\ db'.history[key].PlayCount
                          = db.history[key].PlayCount + CountAdded(kind)
                    /\ db'.history[key].Duration
                          = db.history[key].Duration + DurationAdded(kind, found[t][4])
                    /\ \A k \in DOMAIN db.history \ {key} : db'.history[k] = db.history[k]
          /\ \A kind \in StatsKinds, guildID \in HistoryGuilds, ytid \in YTIDs,
                duration \in Durations :
                  (/\ AddPlaybackStatsRead(t, kind, guildID, ytid, duration)
                   /\ NoTrack(ytid) \/ NoHistory(ytid, guildID))
                      => db' = db /\ pc'[t] = "idle"]_vars
====
